---------------------------- MODULE Spec2Model ----------------------------
(***************************************************************************)
(* A model of bin/mergelogga.js: the changelog generator that reads the    *)
(* existing changelog, segments `git log` output into version buckets,     *)
(* resolves the commit messages of every bucket, renders the blocks and    *)
(* prepends them to the changelog file.                                    *)
(*                                                                         *)
(* Text is a sequence of one-character strings, so that splitting,         *)
(* trimming and the regular expressions of the program are computed the    *)
(* way the program computes them.  The empty sequence stands for the       *)
(* falsy values of the program (undefined, false and '').                  *)
(***************************************************************************)
EXTENDS Naturals, Integers, Sequences, FiniteSets, TLC

----------------------------------------------------------------------------
(* Characters and generic text helpers                                     *)

LF == "\n"
CR == "\r"

Digits == {"0", "1", "2", "3", "4", "5", "6", "7", "8", "9"}

\* the characters \s and _.trim take for whitespace.  A character that a
\* string of this module cannot hold is written as its code point; a text
\* holds it as one character
VT == "U+000B"
NBSP == "U+00A0"
BOM == "U+FEFF"
LineSeparator == "U+2028"
ParagraphSeparator == "U+2029"

UnicodeSpaces ==
    {"U+1680", "U+2000", "U+2001", "U+2002", "U+2003", "U+2004", "U+2005",
     "U+2006", "U+2007", "U+2008", "U+2009", "U+200A", "U+202F", "U+205F",
     "U+3000"}

\* the characters the '.' of a regular expression does not match
LineTerminators == {CR, LF, LineSeparator, ParagraphSeparator}

\* the euro sign, and the character a decoder gives for bytes that are no
\* whole character
Euro == "U+20AC"
Replacement == "U+FFFD"

\* the characters of this module that UTF-8 writes as more than one byte
MultiByte ==
    {NBSP, BOM, LineSeparator, ParagraphSeparator, Euro, Replacement}
        \cup UnicodeSpaces

Whitespace ==
    {" ", "\t", "\r", "\n", "\f", VT, NBSP, BOM, LineSeparator,
     ParagraphSeparator} \cup UnicodeSpaces

\* i-th to j-th character of s (empty when j < i)
Sub(s, i, j) == IF j < i THEN << >> ELSE SubSeq(s, i, j)

\* String.prototype.toLowerCase on the letters the patterns of the program use
ToLower(c) ==
    CASE c = "T" -> "t" [] c = "A" -> "a" [] c = "G" -> "g" [] c = "V" -> "v"
      [] c = "C" -> "c" [] c = "O" -> "o" [] c = "N" -> "n" [] c = "F" -> "f"
      [] c = "L" -> "l" [] c = "I" -> "i" [] c = "S" -> "s" [] c = "M" -> "m"
      [] c = "E" -> "e" [] c = "R" -> "r" [] c = "B" -> "b" [] c = "H" -> "h"
      [] c = "Q" -> "q" [] c = "U" -> "u" [] c = "K" -> "k" [] c = "D" -> "d"
      [] OTHER -> c

Lower(s) == [i \in 1..Len(s) |-> ToLower(s[i])]

\* s begins with p, ignoring case (a pattern anchored with ^ and flag i)
StartsWithI(s, p) ==
    /\ Len(s) >= Len(p)
    /\ Lower(SubSeq(s, 1, Len(p))) = Lower(p)

\* _.trim(line): leading and trailing whitespace removed
Trim(s) ==
    LET idx == {i \in 1..Len(s) : s[i] \notin Whitespace}
    IN  IF idx = {} THEN << >>
        ELSE LET lo == CHOOSE i \in idx : \A j \in idx : i <= j
                 hi == CHOOSE i \in idx : \A j \in idx : i >= j
             IN  SubSeq(s, lo, hi)

\* s with its leading whitespace removed
TrimLeft(s) ==
    LET idx == {i \in 1..Len(s) : s[i] \notin Whitespace}
    IN  IF idx = {} THEN << >>
        ELSE SubSeq(s, CHOOSE i \in idx : \A j \in idx : i <= j, Len(s))

\* s with its trailing whitespace removed
TrimRight(s) ==
    LET idx == {i \in 1..Len(s) : s[i] \notin Whitespace}
    IN  IF idx = {} THEN << >>
        ELSE SubSeq(s, 1, CHOOSE i \in idx : \A j \in idx : i >= j)

\* s.split(c) for a one-character separator c: always at least one piece
SplitOn(s, c) ==
    LET pos == {i \in 1..Len(s) : s[i] = c}
        n   == Cardinality(pos)
        \* the place of the k-th separator; the two ends of s count as
        \* separators 0 and n + 1
        at(k) == IF k = 0 THEN 0
                 ELSE IF k = n + 1 THEN Len(s) + 1
                 ELSE CHOOSE i \in pos : Cardinality({j \in pos : j < i}) = k - 1
    IN  [k \in 1..(n + 1) |-> Sub(s, at(k - 1) + 1, at(k) - 1)]

\* s.split(/(?:\r?\n)/g): a line ends at "\n", and a "\r" right before it
\* belongs to the separator
SplitLines(s) ==
    LET stripCR(l) == IF Len(l) > 0 /\ l[Len(l)] = CR
                      THEN SubSeq(l, 1, Len(l) - 1) ELSE l
        pieces == SplitOn(s, LF)
    IN  [i \in 1..Len(pieces) |->
            IF i < Len(pieces) THEN stripCR(pieces[i]) ELSE pieces[i]]

\* the elements of a sequence
Range(f) == {f[i] : i \in DOMAIN f}

\* the texts of ss joined with sep between them (Array.prototype.join)
RECURSIVE Join(_, _)
Join(ss, sep) ==
    IF ss = << >> THEN << >>
    ELSE IF Len(ss) = 1 THEN ss[1]
    ELSE ss[1] \o sep \o Join(Tail(ss), sep)

\* the concatenation of the texts of ss
RECURSIVE Concat(_)
Concat(ss) == IF ss = << >> THEN << >> ELSE Head(ss) \o Concat(Tail(ss))

----------------------------------------------------------------------------
(* versionRegExp and getTagVersion                                         *)

IsNumber(s) == Len(s) > 0 /\ \A i \in 1..Len(s) : s[i] \in Digits

\* versionRegExp: ^[0-9]+\.[0-9]+(\.[0-9]+(\.[0-9]+)?)?$
versionRegExp(s) ==
    LET parts == SplitOn(s, ".")
    IN  /\ Len(parts) \in 2..4
        /\ \A i \in 1..Len(parts) : IsNumber(parts[i])

\* refNames.split(/\s*,\s*/): the whitespace around a comma goes with it
SplitRefNames(s) ==
    LET pieces == SplitOn(s, ",")
        n == Len(pieces)
    IN  [i \in 1..n |->
            LET a == IF i > 1 THEN TrimLeft(pieces[i]) ELSE pieces[i]
            IN  IF i < n THEN TrimRight(a) ELSE a]

\* version.match(/tag:[\s]+v?(.*)/i): the first group, or << >> for no match.
\* The match starts at the leftmost "tag:" that whitespace follows, takes all
\* of that whitespace, one optional v, and the group is the rest up to the
\* first line terminator.
TagMatch(d) ==
    LET starts == {i \in 1..Len(d) :
                      /\ i + 4 <= Len(d)
                      /\ Lower(SubSeq(d, i, i + 3)) = <<"t", "a", "g", ":">>
                      /\ d[i + 4] \in Whitespace}
    IN  IF starts = {} THEN [matched |-> FALSE, group |-> << >>]
        ELSE LET i    == CHOOSE k \in starts : \A j \in starts : k <= j
                 rest == TrimLeft(Sub(d, i + 4, Len(d)))
                 r    == IF Len(rest) > 0 /\ ToLower(rest[1]) = "v"
                         THEN Sub(rest, 2, Len(rest)) ELSE rest
                 ends == {k \in 1..Len(r) : r[k] \in LineTerminators}
                 g    == IF ends = {} THEN r
                         ELSE Sub(r, 1, (CHOOSE k \in ends : \A j \in ends : k <= j) - 1)
             IN  [matched |-> TRUE, group |-> g]

\* getTagVersion(refNames): the version of the first decoration that tags
\* one, << >> (undefined) when there is none
getTagVersion(refNames) ==
    LET versions == IF refNames = << >> THEN << >> ELSE SplitRefNames(refNames)
        tags == {k \in 1..Len(versions) :
                    \E m \in {TagMatch(versions[k])} :
                        m.matched /\ versionRegExp(m.group)}
    IN  IF tags = {} THEN << >>
        ELSE TagMatch(versions[CHOOSE k \in tags : \A j \in tags : k <= j]).group

----------------------------------------------------------------------------
(* The state of one run                                                    *)

VARIABLES
    allCommits,          \* program.all (-a)
    overwriteChangelog,  \* program.overwrite (-o)
    startVersion,        \* program.startVersion (-s), << >> for false
    shortCommitMessage,  \* program.trim (off with -T)
    history,             \* the commits of the branch, newest first
    bodies,              \* hash -> the message body `git show` prints
    store,               \* the changelog file: [exists, content]
    writes,              \* calls of fs.writeFile in this run
    changelogRead,       \* what readChangelogFile hands on
    oldChangelogHeader,
    oldChangelog,
    untilVersion,        \* << >> for undefined
    pc,                  \* the waterfall stage in progress
    gitOut,              \* output of `git log` not yet delivered
    cutsLeft,            \* data events that may still end inside the output
    processKilled,
    versionsWithCommits,
    currentCommits,
    currentVersion,
    seenLines,           \* history: the lines the data handler has walked
    tasks,               \* the bucket tasks of getMessagesForVersions
    versionsWithMessages,
    changelog,           \* the text generateChangelog rendered
    finish,              \* what handleFinish did: none, success, error
    run,                 \* the number of this run of the tool
    startStore,          \* history: the store when this run started
    lastFinish           \* history: what handleFinish did in the run before

segVars == <<gitOut, processKilled, versionsWithCommits,
             currentCommits, currentVersion, seenLines>>

optVars == <<allCommits, overwriteChangelog, startVersion, shortCommitMessage>>

envVars == <<history, bodies>>

logVars == <<changelogRead, oldChangelogHeader, oldChangelog, untilVersion>>

outVars == <<tasks, versionsWithMessages, changelog>>

runVars == <<run, startStore, lastFinish>>

vars == <<optVars, envVars, store, writes, logVars, pc, segVars, cutsLeft,
          outVars, finish, runVars>>

----------------------------------------------------------------------------
(* readChangelogFile and getLastVersionFromChangelog                       *)

\* what readChangelogFile passes on: the content, '' for an absent file
ReadChangelog(st) == IF st.exists THEN st.content ELSE << >>

\* the forEach of getLastVersionFromChangelog over the lines of the text,
\* then the removal of the last "\n" of oldChangelog
SplitChangelog(text) ==
    LET lines == SplitLines(text)
        F[k \in 0..Len(lines)] ==
            IF k = 0 THEN [until |-> << >>, header |-> << >>, old |-> << >>]
            ELSE LET p == F[k - 1]
                     u == IF p.until = << >> /\ versionRegExp(lines[k])
                          THEN lines[k] ELSE p.until
                 IN  IF u # << >>
                     THEN [until |-> u, header |-> p.header,
                           old |-> p.old \o lines[k] \o <<LF>>]
                     ELSE [until |-> u, header |-> p.header \o lines[k] \o <<LF>>,
                           old |-> p.old]
        r == F[Len(lines)]
    IN  [r EXCEPT !.old = Sub(r.old, 1, Len(r.old) - 1)]

\* a reader that looks for the last version in overwrite mode too
ResumesAlways(overwrite, text) ==
    IF text = << >>
    THEN [until |-> << >>, header |-> << >>, old |-> << >>]
    ELSE SplitChangelog(text)

\* getLastVersionFromChangelog: nothing is looked for in overwrite mode or
\* when the changelog read is empty
LastVersion(overwrite, text) ==
    IF overwrite \/ text = << >>
    THEN [until |-> << >>, header |-> << >>, old |-> << >>]
    ELSE SplitChangelog(text)

----------------------------------------------------------------------------
(* The history provider: git log --pretty=tformat:%h %p#%D                 *)

\* one line of the provider: hash, the parents, '#', the ref decorations
FormatLine(c) ==
    c.hash \o <<" ">> \o Join(c.parents, <<" ">>) \o <<"#">>
           \o Join(c.refs, <<",", " ">>)

\* tformat: every line is terminated by a newline
GitLogOutput(h) == Concat([i \in 1..Len(h) |-> FormatLine(h[i]) \o <<LF>>])

----------------------------------------------------------------------------
(* getVersionsWithCommits: the data handler                                *)

\* line 122: the tag just read is the resume version
ReachedLastVersion(version, until) == version = until

\* line 138: the hash of the line is kept
KeepsCommit(all, hashes) == Len(hashes[1]) > 0 /\ (all \/ Len(hashes) > 2)

\* a segmenter that keeps the commits collected under no version for the
\* bucket it opens
OpenKeepingCommits(st, version) ==
    [st EXCEPT !.versionsWithCommits =
                   IF st.currentVersion # << >>
                   THEN Append(@, [version |-> st.currentVersion,
                                   commits |-> st.currentCommits])
                   ELSE @,
               !.currentCommits = IF st.currentVersion # << >> THEN << >> ELSE @,
               !.currentVersion = version]

\* a segmenter that opens a bucket without pushing the open one
OpenWithoutSeal(st, version) ==
    [st EXCEPT !.currentCommits = << >>, !.currentVersion = version]

\* lines 128-135: the open bucket is pushed, a bucket for version is opened
OpenVersion(st, version) ==
    [st EXCEPT !.versionsWithCommits =
                   IF st.currentVersion # << >>
                   THEN Append(@, [version |-> st.currentVersion,
                                   commits |-> st.currentCommits])
                   ELSE @,
               !.currentCommits = << >>,
               !.currentVersion = version]

\* lines 116-141: the body of the forEach for one line; once the resume
\* version was reached (return false) the remaining lines are not walked
SegmentLine(st, rawLine, all, until) ==
    IF st.processKilled THEN st
    ELSE
    LET line    == Trim(rawLine)
        parts   == SplitOn(line, "#")
        hashes  == SplitOn(parts[1], " ")
        version == getTagVersion(IF Len(parts) > 1 THEN parts[2] ELSE << >>)
        seen    == [st EXCEPT !.seenLines = Append(@, line)]
    IN  IF version # << >> /\ ReachedLastVersion(version, until)
        THEN [seen EXCEPT !.processKilled = TRUE]
        ELSE LET st1 == IF version # << >> THEN OpenVersion(seen, version) ELSE seen
             IN  IF KeepsCommit(all, hashes)
                 THEN [st1 EXCEPT !.currentCommits = Append(@, hashes[1])]
                 ELSE st1

\* lines 111-144: the data handler on one chunk
RECURSIVE SegmentLines(_, _, _, _)
SegmentLines(st, lines, all, until) ==
    IF lines = << >> THEN st
    ELSE CHOOSE r \in {SegmentLines(p, Tail(lines), all, until) :
                          p \in {SegmentLine(st, Head(lines), all, until)}} : TRUE

SegmentData(st, data, all, until) ==
    IF st.processKilled THEN st ELSE SegmentLines(st, SplitLines(data), all, until)

\* a close handler that pushes nothing
NeverSeals(st) == st.versionsWithCommits

\* lines 150-156: what the close handler hands on when git reported no error
SealOnClose(st) ==
    IF st.currentVersion # << >>
    THEN Append(st.versionsWithCommits,
                [version |-> st.currentVersion, commits |-> st.currentCommits])
    ELSE st.versionsWithCommits

SegState == [processKilled |-> processKilled,
             versionsWithCommits |-> versionsWithCommits,
             currentCommits |-> currentCommits,
             currentVersion |-> currentVersion,
             seenLines |-> seenLines]

----------------------------------------------------------------------------
(* getMessageForCommit: the data handler and the close handler             *)

ConflictsWord == <<"C", "o", "n", "f", "l", "i", "c", "t", "s", ":">>

MergeBranchWord == <<"M", "e", "r", "g", "e", " ", "b", "r", "a", "n", "c", "h", " ">>

MergeTrackingWord ==
    <<"M", "e", "r", "g", "e", " ", "r", "e", "m", "o", "t", "e", "-", "t", "r",
      "a", "c", "k", "i", "n", "g", " ", "b", "r", "a", "n", "c", "h", " ">>

SeeMergeRequestWord ==
    <<"S", "e", "e", " ", "m", "e", "r", "g", "e", " ", "r", "e", "q", "u", "e",
      "s", "t", " ", "!">>

\* line.match(/^(#\s*)?Conflicts:/i)
IsConflictsLine(line) ==
    \/ StartsWithI(line, ConflictsWord)
    \/ /\ Len(line) > 0
       /\ line[1] = "#"
       /\ StartsWithI(TrimLeft(Tail(line)), ConflictsWord)

\* line.match(/^Merge (remote-tracking )?branch .*/i)
IsMergeBranchLine(line) ==
    StartsWithI(line, MergeBranchWord) \/ StartsWithI(line, MergeTrackingWord)

\* line.match(/^See merge request !.*/i)
IsMergeRequestLine(line) == StartsWithI(line, SeeMergeRequestWord)

\* a reducer that drops no line
NeverSkips(found) == FALSE

\* line 176: the lines of a message are dropped once the flag is set
SkipsLine(found) == found

\* lines 170-188: the reducer of the data handler on one line
MessageLine(st, rawLine) ==
    LET line  == Trim(rawLine)
        found == st.foundConflict \/ IsConflictsLine(line)
        st1   == [st EXCEPT !.foundConflict = found, !.seen = Append(@, line)]
    IN  IF SkipsLine(found) THEN st1
        ELSE IF IsMergeBranchLine(line) THEN st1
        ELSE IF IsMergeRequestLine(line) THEN [st1 EXCEPT !.isMergeRequest = TRUE]
        ELSE IF Len(line) > 0 THEN [st1 EXCEPT !.message = Append(@, line)]
        ELSE st1

\* lines 167-191: the data handler of git show on one chunk
RECURSIVE MessageLines(_, _)
MessageLines(st, lines) ==
    IF lines = << >> THEN st
    ELSE CHOOSE r \in {MessageLines(p, Tail(lines)) :
                          p \in {MessageLine(st, Head(lines))}} : TRUE

MessageData(st, data) == MessageLines(st, SplitLines(data))

\* line 198: the message handed to the callback
MessageText(message, short) ==
    IF short /\ Len(message) > 0 THEN message[1] ELSE Join(message, <<LF>>)

\* the remove-markdown package on the texts this model resolves: a text made
\* of two or more '=' or '-' (a setext underline, a rule) is removed, plain
\* text is left alone
removeMd(text) ==
    LET t == TrimRight(text)
    IN  IF Len(t) >= 2 /\ \A i \in 1..Len(t) : t[i] \in {"=", "-"}
        THEN << >> ELSE text

\* a task that keeps every message
KeepsEveryMessage(all, isMergeRequest) == TRUE

\* line 210: a message is kept in all-commits mode or when it is marked as
\* a merge request
KeepsMessage(all, isMergeRequest) == all \/ isMergeRequest

\* lines 196-200 and 210: what the task of one commit hands to parallelLimit
ResolvedText(st, all, short) ==
    IF KeepsMessage(all, st.isMergeRequest)
    THEN removeMd(MessageText(st.message, short))
    ELSE << >>

\* filterEmptyMessages: _.filter(messages)
filterEmptyMessages(messages) ==
    LET F[k \in 0..Len(messages)] ==
            IF k = 0 THEN << >>
            ELSE LET p == F[k - 1]
                 IN  IF messages[k] # << >> THEN Append(p, messages[k]) ELSE p
    IN  F[Len(messages)]

----------------------------------------------------------------------------
(* getMessagesForVersions and getMessagesForListOfCommits: two nested      *)
(* async.parallelLimit                                                     *)

FetchLimit == 4
VersionLimit == 4

NewFetch(hash) ==
    [hash |-> hash, state |-> "pending", out |-> << >>, message |-> << >>,
     isMergeRequest |-> FALSE, foundConflict |-> FALSE, seen |-> << >>,
     text |-> << >>, overtaken |-> FALSE]

NewTask(bucket) ==
    [version |-> bucket.version, state |-> "pending",
     fetches |-> [i \in 1..Len(bucket.commits) |-> NewFetch(bucket.commits[i])]]

\* history: a fetch of a later commit, or of a later bucket, closed before
\* the fetch of commit i of bucket b
Overtaken(ts, b, i) ==
    \E c \in 1..Len(ts) : \E j \in 1..Len(ts[c].fetches) :
        /\ ts[c].fetches[j].state = "closed"
        /\ c > b \/ (c = b /\ j > i)

\* what git show prints for a hash: nothing for a name that is no commit
ShowOutput(hash) == IF hash \in DOMAIN bodies THEN bodies[hash] ELSE << >>

Count(fs, state) == Cardinality({i \in 1..Len(fs) : fs[i].state = state})

\* a parallelLimit that spawns every pending fetch
StartEveryFetch(fs, limit) ==
    [i \in 1..Len(fs) |->
        IF fs[i].state = "pending"
        THEN [fs[i] EXCEPT !.state = "running", !.out = ShowOutput(fs[i].hash)]
        ELSE fs[i]]

\* parallelLimit over the commits of a bucket: pending fetches are spawned in
\* order while fewer than the limit are running
StartFetches(fs, limit) ==
    LET room == limit - Count(fs, "running")
        rank(i) == Cardinality({j \in 1..i : fs[j].state = "pending"})
    IN  [i \in 1..Len(fs) |->
            IF fs[i].state = "pending" /\ rank(i) <= room
            THEN [fs[i] EXCEPT !.state = "running", !.out = ShowOutput(fs[i].hash)]
            ELSE fs[i]]

\* a bucket task is done when every fetch of it has closed
AllClosed(fs) == \A i \in 1..Len(fs) : fs[i].state = "closed"

\* parallelLimit over the buckets: pending bucket tasks are started in order
\* while fewer than the limit are running; a bucket of no commits calls back
\* at once and takes no room
StartTasks(ts, limit) ==
    LET F[k \in 0..Len(ts)] ==
            IF k = 0 THEN [ts |-> ts, running |-> Count(ts, "running")]
            ELSE LET p == F[k - 1]
                 IN  IF ts[k].state # "pending" \/ p.running >= limit THEN p
                     ELSE IF ts[k].fetches = << >>
                     THEN [p EXCEPT !.ts[k].state = "done"]
                     ELSE [ts |-> [p.ts EXCEPT ![k] =
                                     [@ EXCEPT !.state = "running",
                                               !.fetches = StartFetches(@, FetchLimit)]],
                           running |-> p.running + 1]
    IN  F[Len(ts)].ts

\* a parallelLimit over the buckets that calls back at the first bucket done
SomeDone(ts) == ts = << >> \/ \E b \in 1..Len(ts) : ts[b].state = "done"

AllDone(ts) == \A b \in 1..Len(ts) : ts[b].state = "done"

\* a bucket task that hands on its messages last first
ReversedResult(t) ==
    [version |-> t.version,
     messages |-> filterEmptyMessages(
                      [i \in 1..Len(t.fetches) |->
                          t.fetches[Len(t.fetches) + 1 - i].text])]

\* lines 227-230: the result of a bucket task
TaskResult(t) ==
    [version |-> t.version,
     messages |-> filterEmptyMessages([i \in 1..Len(t.fetches) |-> t.fetches[i].text])]

\* the results of parallelLimit, by position
TaskResults(ts) == [b \in 1..Len(ts) |-> TaskResult(ts[b])]

----------------------------------------------------------------------------
(* filterEmptyVersions, generateChangelog, writeChangelogFile              *)

\* filterEmptyVersions: the buckets that have a message
filterEmptyVersions(vs) ==
    LET F[k \in 0..Len(vs)] ==
            IF k = 0 THEN << >>
            ELSE LET p == F[k - 1]
                 IN  IF Len(vs[k].messages) > 0 THEN Append(p, vs[k]) ELSE p
    IN  F[Len(vs)]

\* new Array(n + 1).join('='): n times '='
Underline(n) == [i \in 1..n |-> "="]

\* one bullet of a block
Bullet(message) == <<" ", "*", " ">> \o message \o <<LF>>

\* generateVersionChangelog: title, underline, one bullet per message
generateVersionChangelog(version, messages) ==
    version \o <<LF>> \o Underline(Len(version)) \o <<LF>>
            \o Concat([i \in 1..Len(messages) |-> Bullet(messages[i])])

\* a forEach that goes on past a bucket of the resume version
NeverStops(version, until) == FALSE

\* line 260: the forEach stops at a bucket of the resume version
StopsRendering(version, until) == version = until

\* generateChangelog: the blocks of the buckets, up to the first bucket of
\* the resume version
generateChangelog(vs, until) ==
    LET F[k \in 0..Len(vs)] ==
            IF k = 0 THEN [text |-> << >>, stopped |-> FALSE]
            ELSE LET p == F[k - 1]
                 IN  IF p.stopped \/ StopsRendering(vs[k].version, until)
                     THEN [p EXCEPT !.stopped = TRUE]
                     ELSE [p EXCEPT !.text = @ \o generateVersionChangelog(
                                       vs[k].version, vs[k].messages) \o <<LF>>]
    IN  F[Len(vs)].text

\* line 272: what writeChangelogFile writes
WrittenDocument(header, text, old) == header \o text \o old

\* line 269: the store is written when something was rendered
WritesChangelog(text) == text # << >>

----------------------------------------------------------------------------
(* The waterfall                                                           *)

\* what a process reports at close: 0, a failure status, or -1 for the null
\* code of a process ended by a signal
ExitCodes == {0, 128}

KilledCodes == {-1, 0, 128}

\* if (code): null and 0 are falsy
Truthy(code) == code \notin {0, -1}

\* a finish handler that is never reached
NeverReports(error) == "none"

\* a finish handler that takes every outcome for a success
ReportsSuccess(error) == "success"

\* handleFinish: an error is printed and the process exits with status 1
handleFinish(error) == IF error THEN "error" ELSE "success"

\* a data event delivers the next n characters of out; an event that ends
\* inside the output takes one of the cuts left
Delivers(out, n) ==
    /\ n \in 1..Len(out)
    /\ n < Len(out) => cutsLeft > 0

CutsAfter(out, n) == IF n < Len(out) THEN cutsLeft - 1 ELSE cutsLeft

\* lines 47-57: fs.stat, then fs.readFile of a file that exists.  A read
\* that fails (line 51) goes to handleFinish; an absent file reads as ''
readChangelogFile ==
    /\ pc = "readChangelogFile"
    /\ \E ok \in (IF store.exists THEN BOOLEAN ELSE {TRUE}) :
          IF ok
          THEN /\ changelogRead' = ReadChangelog(store)
               /\ pc' = "getLastVersionFromChangelog"
               /\ UNCHANGED finish
          ELSE /\ finish' = handleFinish(TRUE)
               /\ pc' = "done"
               /\ UNCHANGED changelogRead
    /\ UNCHANGED <<optVars, envVars, store, writes, oldChangelogHeader,
                   oldChangelog, untilVersion, segVars, cutsLeft, outVars,
                   runVars>>

getLastVersionFromChangelog ==
    /\ pc = "getLastVersionFromChangelog"
    /\ LET r == LastVersion(overwriteChangelog, changelogRead)
       IN  /\ untilVersion' = r.until
           /\ oldChangelogHeader' = r.header
           /\ oldChangelog' = r.old
    /\ pc' = "getVersionsWithCommits"
    /\ UNCHANGED <<optVars, envVars, store, writes, changelogRead, segVars,
                   cutsLeft, outVars, finish, runVars>>

\* lines 94-110: the closure variables are set and git log is spawned
getVersionsWithCommits ==
    /\ pc = "getVersionsWithCommits"
    /\ versionsWithCommits' = << >>
    /\ currentCommits' = << >>
    /\ currentVersion' = startVersion
    /\ processKilled' = FALSE
    /\ gitOut' = GitLogOutput(history)
    /\ pc' = "gitLog"
    /\ UNCHANGED <<optVars, envVars, store, writes, logVars, seenLines,
                   cutsLeft, outVars, finish, runVars>>

\* a data event of git log.  Once the process was killed the handler returns
\* at once, whatever arrives.
gitLogData ==
    /\ pc = "gitLog"
    /\ gitOut # << >>
    /\ \E n \in 1..Len(gitOut) :
          /\ Delivers(gitOut, n)
          /\ processKilled => n = Len(gitOut)
          /\ \E st \in {SegmentData(SegState, SubSeq(gitOut, 1, n),
                                    allCommits, untilVersion)} :
                 /\ processKilled' = st.processKilled
                 /\ versionsWithCommits' = st.versionsWithCommits
                 /\ currentCommits' = st.currentCommits
                 /\ currentVersion' = st.currentVersion
                 /\ seenLines' = st.seenLines
          /\ gitOut' = Sub(gitOut, n + 1, Len(gitOut))
          /\ cutsLeft' = CutsAfter(gitOut, n)
    /\ UNCHANGED <<optVars, envVars, store, writes, logVars, pc, outVars,
                   finish, runVars>>

\* lines 146-158: git log closed.  A failure status may come at any time; a
\* clean close comes after the whole output, or after the kill.
gitLogClose ==
    /\ pc = "gitLog"
    /\ \E code \in (IF processKilled THEN KilledCodes ELSE ExitCodes) :
          /\ ~Truthy(code) => (gitOut = << >> \/ processKilled)
          /\ IF Truthy(code)
             THEN /\ finish' = handleFinish(TRUE)
                  /\ pc' = "done"
                  /\ UNCHANGED versionsWithCommits
             ELSE /\ versionsWithCommits' = SealOnClose(SegState)
                  /\ pc' = "getMessagesForVersions"
                  /\ UNCHANGED finish
    /\ UNCHANGED <<optVars, envVars, store, writes, logVars, gitOut,
                   processKilled, currentCommits, currentVersion, seenLines,
                   cutsLeft, outVars, runVars>>

\* the state after the bucket tasks changed to ts: when every task is done
\* parallelLimit hands the results to the next stage
AfterTasks(ts) ==
    /\ tasks' = ts
    /\ IF AllDone(ts)
       THEN /\ versionsWithMessages' = TaskResults(ts)
            /\ pc' = "filterEmptyVersions"
       ELSE UNCHANGED <<versionsWithMessages, pc>>

\* lines 221-237: the bucket tasks are built and the first ones started
getMessagesForVersions ==
    /\ pc = "getMessagesForVersions"
    /\ tasks = << >>
    /\ AfterTasks(StartTasks([b \in 1..Len(versionsWithCommits) |->
                                 NewTask(versionsWithCommits[b])], VersionLimit))
    /\ UNCHANGED <<optVars, envVars, store, writes, logVars, segVars,
                   cutsLeft, changelog, finish, runVars>>

\* a data event of the git show of commit i of bucket b
gitShowData(b, i) ==
    /\ pc = "getMessagesForVersions"
    /\ tasks[b].fetches[i].state = "running"
    /\ tasks[b].fetches[i].out # << >>
    /\ LET f == tasks[b].fetches[i]
       IN  \E n \in 1..Len(f.out) :
              /\ Delivers(f.out, n)
              /\ tasks' = [tasks EXCEPT ![b].fetches[i] =
                             [MessageData(f, SubSeq(f.out, 1, n))
                                 EXCEPT !.out = Sub(f.out, n + 1, Len(f.out))]]
              /\ cutsLeft' = CutsAfter(f.out, n)
    /\ UNCHANGED <<optVars, envVars, store, writes, logVars, pc, segVars,
                   versionsWithMessages, changelog, finish, runVars>>

\* lines 192-202 and 209-211: the git show of commit i of bucket b closed.
\* An error goes through both parallelLimit to handleFinish, the process
\* that closed being no longer running ("failed"); otherwise the
\* text is stored at its position, the next fetch of the bucket is spawned,
\* and a bucket that is complete makes room for the next bucket.
gitShowClose(b, i) ==
    /\ pc = "getMessagesForVersions"
    /\ tasks[b].fetches[i].state = "running"
    /\ LET f == tasks[b].fetches[i]
       IN  \E code \in ExitCodes :
              /\ ~Truthy(code) => (f.out = << >> /\ f.hash \in DOMAIN bodies)
              /\ IF Truthy(code)
                 THEN /\ finish' = handleFinish(TRUE)
                      /\ pc' = "done"
                      /\ tasks' = [tasks EXCEPT ![b].fetches[i].state = "failed"]
                      /\ UNCHANGED versionsWithMessages
                 ELSE LET closed == [f EXCEPT !.state = "closed",
                                       !.text = ResolvedText(f, allCommits,
                                                             shortCommitMessage),
                                       !.overtaken = Overtaken(tasks, b, i)]
                          fs  == StartFetches([tasks[b].fetches EXCEPT ![i] = closed],
                                              FetchLimit)
                          ts1 == [tasks EXCEPT ![b].fetches = fs,
                                               ![b].state = IF AllClosed(fs)
                                                            THEN "done" ELSE @]
                      IN  /\ AfterTasks(StartTasks(ts1, VersionLimit))
                          /\ UNCHANGED finish
    /\ UNCHANGED <<optVars, envVars, store, writes, logVars, segVars,
                   cutsLeft, changelog, runVars>>

filterEmptyVersionsStage ==
    /\ pc = "filterEmptyVersions"
    /\ versionsWithMessages' = filterEmptyVersions(versionsWithMessages)
    /\ pc' = "generateChangelog"
    /\ UNCHANGED <<optVars, envVars, store, writes, logVars, segVars,
                   cutsLeft, tasks, changelog, finish, runVars>>

generateChangelogStage ==
    /\ pc = "generateChangelog"
    /\ changelog' = generateChangelog(versionsWithMessages, untilVersion)
    /\ pc' = "writeChangelogFile"
    /\ UNCHANGED <<optVars, envVars, store, writes, logVars, segVars,
                   cutsLeft, tasks, versionsWithMessages, finish, runVars>>

\* what fs.writeFile can leave when it fails: the store as it was (the file
\* could not be opened), or the file truncated and a part of the bytes of the
\* document written.  The content is the text a read of the file gives: bytes
\* that end inside a character of more than one byte read as one replacement
\* character
FailedWrites(st, doc) ==
    {st}
    \cup {[exists |-> TRUE, content |-> Sub(doc, 1, k)] : k \in 0..(Len(doc) - 1)}
    \cup {[exists |-> TRUE, content |-> Sub(doc, 1, k) \o <<Replacement>>] :
             k \in {j \in 0..(Len(doc) - 1) : doc[j + 1] \in MultiByte}}

\* lines 268-279: the store is written when something was rendered, and the
\* outcome goes to handleFinish
writeChangelogFile ==
    /\ pc = "writeChangelogFile"
    /\ IF WritesChangelog(changelog)
       THEN /\ writes' = writes + 1
            /\ \E doc \in {WrittenDocument(oldChangelogHeader, changelog,
                                            oldChangelog)} :
               \E ok \in BOOLEAN :
                  /\ store' \in IF ok
                                THEN {[exists |-> TRUE, content |-> doc]}
                                ELSE FailedWrites(store, doc)
                  /\ finish' = handleFinish(~ok)
       ELSE /\ finish' = handleFinish(FALSE)
            /\ UNCHANGED <<store, writes>>
    /\ pc' = "done"
    /\ UNCHANGED <<optVars, envVars, logVars, segVars, cutsLeft, outVars, runVars>>

MaxRuns == 2

\* the tool is run again on the store the last run left: same options, same
\* history
runAgain ==
    /\ pc = "done"
    /\ run < MaxRuns
    /\ run' = run + 1
    /\ startStore' = store
    /\ lastFinish' = finish
    /\ pc' = "readChangelogFile"
    /\ writes' = 0
    /\ changelogRead' = << >>
    /\ oldChangelogHeader' = << >>
    /\ oldChangelog' = << >>
    /\ untilVersion' = << >>
    /\ gitOut' = << >>
    /\ processKilled' = FALSE
    /\ versionsWithCommits' = << >>
    /\ currentCommits' = << >>
    /\ currentVersion' = << >>
    /\ seenLines' = << >>
    /\ tasks' = << >>
    /\ versionsWithMessages' = << >>
    /\ changelog' = << >>
    /\ finish' = "none"
    /\ UNCHANGED <<optVars, envVars, store, cutsLeft>>

----------------------------------------------------------------------------
(* Inputs                                                                  *)

V10 == <<"1", ".", "0">>
V09 == <<"0", ".", "9">>
V20 == <<"2", ".", "0">>
V100 == <<"1", ".", "0", ".", "0">>
V090 == <<"0", ".", "9", ".", "0">>

\* a decoration as %D prints a tag
TagRef(v) == <<"t", "a", "g", ":", " ", "v">> \o v

Hashes == << <<"a", "1">>, <<"b", "2">>, <<"c", "3">>, <<"d", "4">>, <<"e", "5">>,
            <<"f", "6">>, <<"g", "7">>, <<"h", "8">>, <<"i", "9">> >>

OneParent == << <<"p">> >>
TwoParents == << <<"p">>, <<"q">> >>

ParentLists == {OneParent, TwoParents}

RefLists == { << >>, <<TagRef(V10)>>, <<TagRef(V09)>>,
              <<TagRef(V09), TagRef(V10)>> }

Commit(i, parents, refs) == [hash |-> Hashes[i], parents |-> parents, refs |-> refs]

\* the histories of at most n commits, the i-th with the i-th hash
Histories(n) ==
    UNION {{h \in [1..k -> [hash : {Hashes[i] : i \in 1..k},
                            parents : ParentLists, refs : RefLists]] :
               \A i \in 1..k : h[i].hash = Hashes[i]} : k \in 0..n}

MaxCommits == 2
MaxCuts == 1

\* changelog files: none, a header only, a version on the first line, and a
\* header and a version with CRLF line ends
Stores == { [exists |-> FALSE, content |-> << >>],
            [exists |-> TRUE, content |-> <<"L", LF>>],
            [exists |-> TRUE, content |-> V10 \o <<LF>>],
            [exists |-> TRUE, content |-> <<"L", CR, LF>> \o V09 \o <<CR, LF>>] }

\* the changelog files of the segmenter: those, and an empty file
SegStores == Stores \cup {[exists |-> TRUE, content |-> << >>]}

\* the lines of commit messages
TitleLine == <<"T">>
RuleLine == <<"-", "-">>
ConflictsLine == ConflictsWord
HashConflictsLine == <<"#", " ", "c", "o", "n", "f", "l", "i", "c", "t", "s", ":">>
MergeBranchLine == MergeBranchWord \o <<"x">>
MergeRequestLine == SeeMergeRequestWord \o <<"1">>

\* a title behind a form feed, which _.trim removes
FormFeedLine == <<"\f", "T">>

LineChoices == {TitleLine, RuleLine, ConflictsLine, HashConflictsLine,
                MergeBranchLine, MergeRequestLine, FormFeedLine, << >>}

\* what git show prints for %B under tformat: the raw body, every line of it
\* ended by a newline, then the newline that ends the record
Body(lines) == Concat([i \in 1..Len(lines) |-> lines[i] \o <<LF>>]) \o <<LF>>

MaxLines == 3

MessageBodies == {Body(ls) : ls \in UNION {[1..k -> LineChoices] : k \in 0..MaxLines}}

\* a1 (one parent, tag 1.0.0), b2 (two parents), c3 (one parent, tag 0.9.0)
ExampleHistory ==
    << Commit(1, OneParent, <<TagRef(V100)>>),
       Commit(2, TwoParents, << >>),
       Commit(3, OneParent, <<TagRef(V090)>>) >>

\* a merge commit under a tag whose name has a line separator after 1.0
SeparatorTagged ==
    << Commit(1, TwoParents, <<TagRef(V10) \o <<LineSeparator, "x">> >>) >>

\* three merge commits, the first and the last tagged
ThreeMerges ==
    << Commit(1, TwoParents, <<TagRef(V10)>>),
       Commit(2, TwoParents, << >>),
       Commit(3, TwoParents, <<TagRef(V09)>>) >>

\* the values every run starts from
Fresh ==
    /\ writes = 0
    /\ changelogRead = << >>
    /\ oldChangelogHeader = << >>
    /\ oldChangelog = << >>
    /\ untilVersion = << >>
    /\ pc = "readChangelogFile"
    /\ gitOut = << >>
    /\ processKilled = FALSE
    /\ versionsWithCommits = << >>
    /\ currentCommits = << >>
    /\ currentVersion = << >>
    /\ seenLines = << >>
    /\ tasks = << >>
    /\ versionsWithMessages = << >>
    /\ changelog = << >>
    /\ finish = "none"
    /\ run = 1
    /\ startStore = store
    /\ lastFinish = "none"

----------------------------------------------------------------------------
(* The segmenter on every history of at most MaxCommits commits            *)

InitSeg ==
    /\ allCommits \in BOOLEAN
    /\ overwriteChangelog \in BOOLEAN
    /\ startVersion \in {<< >>, V20}
    /\ shortCommitMessage = TRUE
    /\ history \in Histories(MaxCommits)
                      \cup {ExampleHistory, ThreeMerges, SeparatorTagged}
    /\ bodies = << >>
    /\ store \in SegStores
    /\ overwriteChangelog => store.content = V10 \o <<LF>>
    /\ cutsLeft = MaxCuts
    /\ Fresh

NextSeg ==
    \/ readChangelogFile
    \/ getLastVersionFromChangelog
    \/ getVersionsWithCommits
    \/ gitLogData
    \/ gitLogClose

SpecSeg == InitSeg /\ [][NextSeg]_vars

----------------------------------------------------------------------------
(* The message resolver on every body of at most MaxLines lines: the state *)
(* after the segmentation of a history of one tagged merge commit          *)

MsgHistory == << Commit(1, TwoParents, <<TagRef(V10)>>) >>

InitMsg ==
    /\ allCommits \in BOOLEAN
    /\ overwriteChangelog = FALSE
    /\ startVersion = << >>
    /\ shortCommitMessage \in BOOLEAN
    /\ history = MsgHistory
    /\ bodies \in [{Hashes[1]} -> MessageBodies]
    /\ store = [exists |-> FALSE, content |-> << >>]
    /\ cutsLeft = MaxCuts
    /\ writes = 0
    /\ changelogRead = << >>
    /\ oldChangelogHeader = << >>
    /\ oldChangelog = << >>
    /\ untilVersion = << >>
    /\ pc = "getMessagesForVersions"
    /\ gitOut = << >>
    /\ processKilled = FALSE
    /\ versionsWithCommits = << [version |-> V10, commits |-> <<Hashes[1]>>] >>
    /\ currentCommits = <<Hashes[1]>>
    /\ currentVersion = V10
    /\ seenLines = <<FormatLine(MsgHistory[1]), << >> >>
    /\ tasks = << >>
    /\ versionsWithMessages = << >>
    /\ changelog = << >>
    /\ finish = "none"
    /\ run = 1
    /\ startStore = store
    /\ lastFinish = "none"

NextMsg ==
    \/ getMessagesForVersions
    \/ \E b \in 1..Len(tasks) : \E i \in 1..Len(tasks[b].fetches) : gitShowData(b, i)
    \/ \E b \in 1..Len(tasks) : \E i \in 1..Len(tasks[b].fetches) : gitShowClose(b, i)

SpecMsg == InitMsg /\ [][NextMsg]_vars

----------------------------------------------------------------------------
(* Whole runs                                                              *)

RunHistories == {ExampleHistory, ThreeMerges}

MergeRequestBody == Body(<<TitleLine, MergeRequestLine>>)
PlainBody == Body(<<TitleLine>>)
RuleBody == Body(<<RuleLine, MergeRequestLine>>)

RunBodies ==
    {[h \in {Hashes[1], Hashes[2], Hashes[3]} |->
         IF h = Hashes[1] THEN x ELSE IF h = Hashes[2] THEN y ELSE PlainBody] :
       x \in {MergeRequestBody, PlainBody}, y \in {MergeRequestBody, PlainBody, RuleBody}}

Init ==
    /\ allCommits \in BOOLEAN
    /\ overwriteChangelog \in BOOLEAN
    /\ startVersion = << >>
    /\ shortCommitMessage = TRUE
    /\ history \in RunHistories
    /\ bodies \in RunBodies
    /\ store \in Stores
    /\ cutsLeft = MaxCuts
    /\ Fresh

Next ==
    \/ readChangelogFile
    \/ getLastVersionFromChangelog
    \/ getVersionsWithCommits
    \/ gitLogData
    \/ gitLogClose
    \/ getMessagesForVersions
    \/ \E b \in 1..Len(tasks) : \E i \in 1..Len(tasks[b].fetches) : gitShowData(b, i)
    \/ \E b \in 1..Len(tasks) : \E i \in 1..Len(tasks[b].fetches) : gitShowClose(b, i)
    \/ filterEmptyVersionsStage
    \/ generateChangelogStage
    \/ writeChangelogFile

Spec == Init /\ [][Next]_vars

----------------------------------------------------------------------------
(* Two runs in succession                                                  *)

\* two tagged merge commits
TwoTagged ==
    << Commit(1, TwoParents, <<TagRef(V10)>>),
       Commit(2, TwoParents, <<TagRef(V09)>>) >>

InitTwice ==
    /\ allCommits \in BOOLEAN
    /\ overwriteChangelog \in BOOLEAN
    /\ startVersion \in {<< >>, V20}
    /\ shortCommitMessage = TRUE
    /\ history = TwoTagged
    /\ bodies \in {[h \in {Hashes[1], Hashes[2]} |-> MergeRequestBody]}
    /\ store \in {[exists |-> FALSE, content |-> << >>],
                  [exists |-> TRUE, content |-> <<"L", LF>>]}
    /\ cutsLeft = MaxCuts
    /\ Fresh

NextTwice == Next \/ runAgain

SpecTwice == InitTwice /\ [][NextTwice]_vars

----------------------------------------------------------------------------
(* What the history holds, read from the commit records themselves         *)

\* the least element of a non-empty set of numbers
Least(S) == CHOOSE i \in S : \A j \in S : i <= j

\* the elements of a set of numbers, in increasing order
Ascending(S) ==
    [k \in 1..Cardinality(S) |->
        CHOOSE i \in S : Cardinality({j \in S : j < i}) = k - 1]

KnownVersions == {V10, V09, V20, V100, V090}

\* the versions the decorations of a commit record tag
TagsOf(c) == {v \in KnownVersions : \E i \in 1..Len(c.refs) : c.refs[i] = TagRef(v)}

\* the hashes in the buckets handed to the message resolver
BucketedHashes ==
    UNION {Range(versionsWithCommits[b].commits) : b \in 1..Len(versionsWithCommits)}

BucketVersions ==
    {versionsWithCommits[b].version : b \in 1..Len(versionsWithCommits)}

\* the records that carry a tag of the resume version
ResumeRecords == {k \in 1..Len(history) : untilVersion \in TagsOf(history[k])}

\* the history was segmented and git reported no error
Segmented == pc = "getMessagesForVersions" /\ tasks = << >>

\* C1: when a resume version was found and a record of the history carries
\* a decoration that tags it, the segmenter halts at the first such record:
\* no record from it on is in a bucket, no bucket is of the resume version,
\* and every bucket is of the start version or of a tag of an earlier record.
C1_HaltsAtResumeTag ==
    (Segmented /\ untilVersion # << >> /\ ResumeRecords # {}) =>
        LET k == Least(ResumeRecords)
        IN  /\ \A j \in k..Len(history) : history[j].hash \notin BucketedHashes
            /\ untilVersion \notin BucketVersions
            /\ BucketVersions \subseteq
                 ({startVersion} \cup UNION {TagsOf(history[j]) : j \in 1..(k - 1)})

\* the bucket that is open
OpenBucket == [version |-> currentVersion, commits |-> currentCommits]

\* the step in which git log closes without an error after the segmenter
\* detected the resume version
ClosesAfterDetection ==
    pc = "gitLog" /\ processKilled /\ pc' = "getMessagesForVersions"

\* C2 (as claimed): the bucket open when the resume version is detected is
\* discarded; the close that follows hands on the list without it.
C2_OpenBucketDiscarded ==
    [][ClosesAfterDetection => versionsWithCommits' = versionsWithCommits]_vars

\* C2 (amended): the bucket open when the resume version is detected is not
\* pushed at the detection and gets no commit after it, and the close that
\* follows without an error pushes it as the last bucket of the list handed
\* to the message resolver; nothing is pushed when no bucket is open.
C2_OpenBucketSealedOnClose ==
    [][/\ (pc = "gitLog" /\ processKilled /\ pc' = "gitLog") =>
              (/\ versionsWithCommits' = versionsWithCommits
               /\ currentCommits' = currentCommits
               /\ currentVersion' = currentVersion)
       /\ ClosesAfterDetection =>
              versionsWithCommits' =
                  IF currentVersion # << >>
                  THEN Append(versionsWithCommits, OpenBucket)
                  ELSE versionsWithCommits]_vars

\* the resume version was detected while a bucket with a commit was open,
\* and that bucket is the last of the list handed on
C2_Witness ==
    /\ Segmented
    /\ processKilled
    /\ currentCommits # << >>
    /\ versionsWithCommits # << >>
    /\ versionsWithCommits[Len(versionsWithCommits)] = OpenBucket

\* --- the lines the segmenter has walked, position by position ---

\* what the segmenter reads on a line: the tokens before '#', the tag after
LineHashes(line) == SplitOn(SplitOn(line, "#")[1], " ")

LineRefs(line) ==
    LET parts == SplitOn(line, "#") IN IF Len(parts) > 1 THEN parts[2] ELSE << >>

DetectedTag(line) == getTagVersion(LineRefs(line))

\* the positions at which a tag other than the resume version was detected
TagPositions ==
    {i \in 1..Len(seenLines) : DetectedTag(seenLines[i]) \notin {<< >>, untilVersion}}

\* the positions at which a bucket was opened, tags being those detected at
\* the positions tp; 0 is the start version
OpenPositions(tp) == tp \cup (IF startVersion # << >> THEN {0} ELSE {})

\* the position at which the segmenter halted, or the one after the last line
HaltPosition == IF processKilled THEN Len(seenLines) ELSE Len(seenLines) + 1

\* the first opening position after p, or the end of the walk
NextOpening(tp, p) ==
    LET later == {q \in tp : q > p}
    IN  IF later = {} THEN HaltPosition ELSE Least(later)

\* the positions whose commit is retained
RetainedPositions ==
    {i \in 1..Len(seenLines) :
        \E hashes \in {LineHashes(seenLines[i])} :
            hashes[1] # << >> /\ (allCommits \/ Len(hashes) > 2)}

\* the retained positions from p up to the next opening
RetainedFrom(tp, rp, p) == {i \in rp : p <= i /\ i < NextOpening(tp, p)}

\* the bucket of the opening position p
BucketAt(tp, rp, p) ==
    [version |-> IF p = 0 THEN startVersion ELSE DetectedTag(seenLines[p]),
     commits |-> [k \in 1..Cardinality(RetainedFrom(tp, rp, p)) |->
                     LineHashes(seenLines[Ascending(RetainedFrom(tp, rp, p))[k]])[1]]]

BucketsByPosition(tp, rp) ==
    [k \in 1..Cardinality(OpenPositions(tp)) |->
        BucketAt(tp, rp, Ascending(OpenPositions(tp))[k])]

\* C3: for tags detected at positions P1 < P2 with none between them, the
\* bucket of the version at P1 holds the retained commits from P1 up to but
\* not P2, in stream order.  Every bucket but the one of the last opening
\* position is sealed and pushed, in the order of the positions, the last
\* one is the single open bucket until the stream closes, and so no position
\* is in two buckets.
C3_BucketsByPosition ==
    (pc = "gitLog" \/ Segmented) =>
        \E tp \in {TagPositions} : \E rp \in {RetainedPositions} :
        \E buckets \in {BucketsByPosition(tp, rp)} :
            /\ pc = "gitLog" =>
                  IF buckets = << >>
                  THEN versionsWithCommits = << >> /\ currentVersion = << >>
                  ELSE /\ versionsWithCommits = SubSeq(buckets, 1, Len(buckets) - 1)
                       /\ OpenBucket = buckets[Len(buckets)]
            /\ Segmented => versionsWithCommits = buckets
            /\ \A p, q \in OpenPositions(tp) :
                  p # q => RetainedFrom(tp, rp, p) \cap RetainedFrom(tp, rp, q) = {}

\* tags were detected at two positions with a retained untagged commit
\* between them: the first bucket holds two commits, the second one
C3_Witness ==
    /\ Segmented
    /\ Len(versionsWithCommits) = 2
    /\ Len(versionsWithCommits[1].commits) = 2
    /\ Len(versionsWithCommits[2].commits) = 1
    /\ Cardinality(TagPositions) = 2

\* the records the segmenter is to bucket: at or after the first tag (or any
\* record, with a start version) and before the first tag of the resume
\* version
InRange(k) ==
    /\ startVersion # << >> \/ \E j \in 1..k : TagsOf(history[j]) # {}
    /\ \A j \in 1..k : untilVersion = << >> \/ untilVersion \notin TagsOf(history[j])

\* the commit of a record is to be retained
Retains(c) == allCommits \/ Len(c.parents) >= 2

\* C4: a commit is in a bucket if and only if all-commits mode is on or its
\* record has two or more parents: every hash in a bucket is the hash of
\* such a record, and every such record in the range of a bucket is in one.
C4_RetainedIffMerge ==
    Segmented =>
        /\ \A h \in BucketedHashes :
              \E k \in 1..Len(history) : history[k].hash = h /\ Retains(history[k])
        /\ \A k \in 1..Len(history) :
              (InRange(k) /\ Retains(history[k])) => history[k].hash \in BucketedHashes

\* --- the changelog as it was when the run started ---

\* the places at which a line of text begins
LineStarts(text) ==
    {i \in 1..Len(text) : i = 1 \/ text[i - 1] = LF}

\* the line of text that begins at i, without its line end
LineFrom(text, i) ==
    LET ends == {j \in i..Len(text) : text[j] = LF}
        stop == IF ends = {} THEN Len(text) ELSE Least(ends) - 1
    IN  IF stop >= i /\ ends # {} /\ text[stop] = CR
        THEN Sub(text, i, stop - 1) ELSE Sub(text, i, stop)

\* the places at which a line that is a version begins
VersionStarts(text) == {i \in LineStarts(text) : versionRegExp(LineFrom(text, i))}

\* the content before the line of the resume version: all of it when no
\* line is a version
ExistingHeader(text) ==
    IF VersionStarts(text) = {} THEN text
    ELSE Sub(text, 1, Least(VersionStarts(text)) - 1)

\* the content from the line of the resume version onward
ExistingBody(text) ==
    IF VersionStarts(text) = {} THEN << >>
    ELSE Sub(text, Least(VersionStarts(text)), Len(text))

\* C5: the store is written at most once per run and only when a block was
\* rendered; a run that rendered nothing leaves the store as it was; and the
\* document written in prepend mode is the old content before the line of the
\* resume version, then the rendered blocks, then the old content from that
\* line onward.
C5_WritesOncePrepended ==
    /\ writes <= 1
    /\ writes = 1 => changelog # << >>
    /\ (pc = "done" /\ writes = 0) => store = startStore
    /\ (pc = "done" /\ finish = "success" /\ writes = 1 /\ ~overwriteChangelog) =>
          store.content = ExistingHeader(ReadChangelog(startStore))
                            \o changelog
                            \o ExistingBody(ReadChangelog(startStore))

\* C6: a run in prepend mode that follows a successful run on the same
\* history with the same options writes nothing: the changelog after it is
\* the changelog the run before left.
C6_SecondRunWritesNothing ==
    (run >= 2 /\ lastFinish = "success" /\ ~overwriteChangelog) =>
        /\ writes = 0
        /\ store = startStore

\* --- the fetches of commit messages ---

\* the fetches of every bucket task
Fetches ==
    UNION {Range(tasks[b].fetches) : b \in 1..Len(tasks)}

\* the place of the first Conflicts line among the lines a fetch has walked,
\* or the place after the last line
ConflictsAt(f) ==
    LET at == {i \in 1..Len(f.seen) : IsConflictsLine(f.seen[i])}
    IN  IF at = {} THEN Len(f.seen) + 1 ELSE Least(at)

\* the lines of ls that go into a message
MessagePositions(ls) ==
    {i \in 1..Len(ls) :
        /\ Len(ls[i]) > 0
        /\ ~IsMergeBranchLine(ls[i])
        /\ ~IsMergeRequestLine(ls[i])}

MessageOf(ls) ==
    [k \in 1..Cardinality(MessagePositions(ls)) |-> ls[Ascending(MessagePositions(ls))[k]]]

\* the text a message of the lines ls resolves to
TextOf(ls) ==
    IF allCommits \/ \E i \in 1..Len(ls) : IsMergeRequestLine(ls[i])
    THEN removeMd(MessageText(MessageOf(ls), shortCommitMessage))
    ELSE << >>

\* C7: once a Conflicts line (with or without a leading '#') is seen, that
\* line and every later line of the message are left out, whatever they hold
\* and whichever chunk brings them: the message collected, the merge request
\* mark and the resolved text are those of the lines before the Conflicts
\* line alone.
C7_NothingAfterConflicts ==
    \A f \in Fetches :
        \E before \in {SubSeq(f.seen, 1, ConflictsAt(f) - 1)} :
            /\ f.message = MessageOf(before)
            /\ f.isMergeRequest = (\E i \in 1..Len(before) : IsMergeRequestLine(before[i]))
            /\ f.state = "closed" => f.text = TextOf(before)

\* a message was resolved to a text although a title line and a merge
\* request line came after its Conflicts line, in a later chunk
C7_Witness ==
    \E f \in Fetches :
        /\ f.state = "closed"
        /\ cutsLeft = 0
        /\ f.text # << >>
        /\ ConflictsAt(f) + 2 <= Len(f.seen)
        /\ f.seen[ConflictsAt(f) + 1] = TitleLine
        /\ IsMergeRequestLine(f.seen[ConflictsAt(f) + 2])

\* the lines of the message body of a commit
BodyLines(hash) ==
    LET lines == SplitLines(ShowOutput(hash))
    IN  [i \in 1..Len(lines) |-> Trim(lines[i])]

\* the body has a merge request line that no Conflicts line precedes
HasMergeRequestLine(ls) ==
    \E i \in 1..Len(ls) :
        /\ IsMergeRequestLine(ls[i])
        /\ \A j \in 1..i : ~IsConflictsLine(ls[j])

\* C8: a commit message that holds a `See merge request !N` line is resolved
\* with isMergeRequest true, and no line of the resolved text is that line.
C8_MergeRequestMarked ==
    \A f \in Fetches :
        (f.state = "closed" /\ HasMergeRequestLine(BodyLines(f.hash))) =>
            /\ f.isMergeRequest
            /\ \A l \in Range(SplitLines(f.text)) : ~IsMergeRequestLine(l)

\* --- the rendered text, read from the fetches ---

\* the bullet text of a fetch when all-commits mode is off: that of a message
\* marked as a merge request, nothing otherwise
MarkedText(f) ==
    IF f.isMergeRequest
    THEN removeMd(MessageText(f.message, shortCommitMessage)) ELSE << >>

\* the fetches of a bucket task that give a bullet
BulletPositions(t) == {i \in 1..Len(t.fetches) : MarkedText(t.fetches[i]) # << >>}

\* the bucket tasks that give a block: those with a bullet, before the first
\* of them that is of the resume version
BlockPositions ==
    {b \in 1..Len(tasks) :
        /\ BulletPositions(tasks[b]) # {}
        /\ \A a \in 1..b : BulletPositions(tasks[a]) # {} => tasks[a].version # untilVersion}

BlockOf(t) ==
    t.version \o <<LF>> \o [i \in 1..Len(t.version) |-> "="] \o <<LF>>
      \o Concat([k \in 1..Cardinality(BulletPositions(t)) |->
                    <<" ", "*", " ">>
                      \o MarkedText(t.fetches[Ascending(BulletPositions(t))[k]])
                      \o <<LF>>])
      \o <<LF>>

\* C9: with all-commits off a commit whose message is not marked as a merge
\* request gives no message and no bullet, and a bucket all of whose commits
\* are filtered out gives no block: the rendered text is made of the blocks
\* of the buckets that have a marked message, with the bullets of the marked
\* messages alone.
C9_OnlyMarkedMessagesRendered ==
    ~allCommits =>
        /\ \A f \in Fetches : (f.state = "closed" /\ ~f.isMergeRequest) => f.text = << >>
        /\ pc = "writeChangelogFile" =>
              changelog = Concat([k \in 1..Cardinality(BlockPositions) |->
                                     BlockOf(tasks[Ascending(BlockPositions)[k]])])

\* a block was rendered with the bullet of one commit of two, the other not
\* being marked, and a bucket whose only commit is not marked gave no block
C9_Witness ==
    /\ ~allCommits
    /\ pc = "writeChangelogFile"
    /\ Len(tasks) = 2
    /\ Len(tasks[1].fetches) = 2
    /\ tasks[1].fetches[1].isMergeRequest
    /\ ~tasks[1].fetches[2].isMergeRequest
    /\ tasks[1].fetches[2].message # << >>
    /\ Len(tasks[2].fetches) = 1
    /\ ~tasks[2].fetches[1].isMergeRequest
    /\ tasks[2].fetches[1].message # << >>
    /\ BlockPositions = {1}
    /\ changelog = V10 \o <<LF, "=", "=", "=", LF, " ", "*", " ", "T", LF, LF>>

\* C10: with all-commits off and no resume version, the stream a1 (one parent,
\* tag 1.0.0), b2 (two parents, no tag), c3 (one parent, tag 0.9.0), b2 being
\* the commit of a merge request, renders a single block titled 1.0.0 with one
\* bullet from the message of b2 and no block for 0.9.0.
C10_ExampleRendersOneBlock ==
    (/\ ~allCommits
     /\ history = ExampleHistory
     /\ bodies[Hashes[2]] = MergeRequestBody
     /\ untilVersion = << >>
     /\ pc = "writeChangelogFile") =>
        changelog = <<"1", ".", "0", ".", "0", LF, "=", "=", "=", "=", "=", LF,
                      " ", "*", " ", "T", LF, LF>>

----------------------------------------------------------------------------
(* A history of more commits in a bucket, and more buckets, than the two   *)
(* parallelLimit let run at once                                           *)

\* a bucket of five merge commits, then four buckets of one
WideHistory ==
    << Commit(1, TwoParents, <<TagRef(V20)>>),
       Commit(2, TwoParents, << >>),
       Commit(3, TwoParents, << >>),
       Commit(4, TwoParents, << >>),
       Commit(5, TwoParents, << >>),
       Commit(6, TwoParents, <<TagRef(V100)>>),
       Commit(7, TwoParents, <<TagRef(V10)>>),
       Commit(8, TwoParents, <<TagRef(V090)>>),
       Commit(9, TwoParents, <<TagRef(V09)>>) >>

\* the message of a merge request whose title is the hash of its commit
TitledBody(hash) == Body(<<hash, MergeRequestLine>>)

InitWide ==
    /\ allCommits = FALSE
    /\ overwriteChangelog = FALSE
    /\ startVersion = << >>
    /\ shortCommitMessage = TRUE
    /\ history = WideHistory
    /\ bodies = [h \in Range(Hashes) |-> TitledBody(h)]
    /\ store = [exists |-> FALSE, content |-> << >>]
    /\ cutsLeft = 0
    /\ Fresh

SpecWide == InitWide /\ [][Next]_vars

\* the fetches of bucket task b that are in flight
InFlight(b) == {i \in 1..Len(tasks[b].fetches) : tasks[b].fetches[i].state = "running"}

\* the bucket tasks that are being resolved
Resolving == {b \in 1..Len(tasks) : tasks[b].state = "running"}

\* C11: at every moment at most 4 fetches of any one bucket are in flight and
\* at most 4 buckets are being resolved, so at most 16 git show processes run
\* at once, however many buckets and commits there are.
C11_BoundedFetches ==
    /\ \A b \in 1..Len(tasks) : Cardinality(InFlight(b)) <= 4
    /\ Cardinality(Resolving) <= 4
    /\ \A b \in 1..Len(tasks) : InFlight(b) # {} => b \in Resolving
    /\ Cardinality({<<b, i>> \in (1..Len(tasks)) \X (1..5) : i \in InFlight(b)}) <= 16

\* both limits bind: four fetches of a bucket of five are in flight while the
\* fifth waits, and four buckets of five are being resolved while the fifth
\* waits
C11_Witness ==
    /\ Len(tasks) = 5
    /\ Cardinality(Resolving) = 4
    /\ tasks[5].state = "pending"
    /\ Cardinality(InFlight(1)) = 4
    /\ \E i \in 1..Len(tasks[1].fetches) : tasks[1].fetches[i].state = "pending"

\* every commit has the message of a merge request titled with its hash
TitledBodies == \A h \in DOMAIN bodies : bodies[h] = TitledBody(h)

\* C12: whatever the order in which the fetches complete, the messages of a
\* bucket are in the order of its commit hashes, and the buckets of the list
\* handed on are in the order in which the segmenter pushed them.  (Each
\* message here is the hash of its commit.)
C12_ResultsInStreamOrder ==
    (TitledBodies /\ ~allCommits /\ pc = "filterEmptyVersions") =>
        versionsWithMessages =
            [b \in 1..Len(versionsWithCommits) |->
                [version |-> versionsWithCommits[b].version,
                 messages |-> versionsWithCommits[b].commits]]

\* the results were handed on after fetches completed out of order: later
\* commits of the first bucket, and later buckets, closed first
C12_Witness ==
    /\ TitledBodies
    /\ pc = "filterEmptyVersions"
    /\ Len(tasks) = 5
    /\ tasks[1].fetches[1].overtaken
    /\ tasks[1].fetches[3].overtaken
    /\ tasks[2].fetches[1].overtaken
    /\ Len(versionsWithMessages[1].messages) = 5

\* a step in which git log or a git show closes with an error status
ProviderFails == pc \in {"gitLog", "getMessagesForVersions"} /\ pc' = "done"

\* C13: when git log or any one git show exits with a nonzero status the run
\* ends in the error outcome at that first error: no later stage runs, nothing
\* is rendered and the changelog store is not written.
C13_ErrorEndsRun ==
    /\ [][ProviderFails =>
             /\ finish' = "error"
             /\ changelog' = << >>
             /\ versionsWithMessages' = << >>
             /\ writes' = 0
             /\ store' = startStore]_vars
    /\ [][pc # "done"]_vars

\* a git show failed while another fetch had closed and a third was running:
\* the run ended in the error outcome with the store as it was
C13_Witness ==
    /\ pc = "done"
    /\ finish = "error"
    /\ writes = 0
    /\ store = startStore
    /\ \E f \in Fetches : f.state = "closed"
    /\ \E f \in Fetches : f.state = "running"

\* there is nothing to resume from: overwrite mode, a changelog that is absent
\* or empty, or one without a line that is a version
NoResumePoint ==
    \/ overwriteChangelog
    \/ ReadChangelog(startStore) = << >>
    \/ VersionStarts(ReadChangelog(startStore)) = {}

\* C14: without a resume point no resume version is set, git log is never
\* killed, its whole output is walked, every tag detected opens a bucket, and
\* the segmentation ends without an error of its own.
C14_NoResumePoint ==
    NoResumePoint =>
        /\ untilVersion = << >>
        /\ ~processKilled
        /\ Segmented =>
              /\ gitOut = << >>
              /\ GitLogOutput(history) # << >> =>
                    Len(seenLines) >= Len(SplitLines(GitLogOutput(history)))
              /\ Len(versionsWithCommits) = Cardinality(OpenPositions(TagPositions))
              /\ finish = "none"

\* in overwrite mode the changelog has 1.0 on its first line, and the tag 1.0
\* opened a bucket that holds a commit, followed by a second bucket
C14_Witness ==
    /\ overwriteChangelog
    /\ store.content = V10 \o <<LF>>
    /\ Segmented
    /\ Len(versionsWithCommits) = 2
    /\ versionsWithCommits[1].version = V10
    /\ versionsWithCommits[1].commits # << >>

\* the place of a stage in the waterfall of lines 37-45
StageRank(stage) ==
    CASE stage = "readChangelogFile" -> 1
      [] stage = "getLastVersionFromChangelog" -> 2
      [] stage = "getVersionsWithCommits" -> 3
      [] stage = "gitLog" -> 3
      [] stage = "getMessagesForVersions" -> 4
      [] stage = "filterEmptyVersions" -> 5
      [] stage = "generateChangelog" -> 6
      [] stage = "writeChangelogFile" -> 7
      [] stage = "done" -> 8

\* every fetch of every bucket has closed with success
EveryFetchClosed ==
    \A b \in 1..Len(tasks) :
        /\ tasks[b].state = "done"
        /\ \A i \in 1..Len(tasks[b].fetches) : tasks[b].fetches[i].state = "closed"

\* C15: the stages run strictly one after the other; no fetch exists before
\* the history stream has closed, and filtering, rendering and the write
\* happen only when every fetch has closed with success, so no fetch is in
\* flight when the file is written.
C15_StagesInSequence ==
    /\ [][pc' # pc =>
            \/ StageRank(pc') = StageRank(pc) + 1
            \/ pc' = "done" /\ finish' = "error"
            \/ pc = "getVersionsWithCommits" /\ pc' = "gitLog"]_vars
    /\ [](StageRank(pc) <= 3 => tasks = << >>)
    /\ []((pc \in {"filterEmptyVersions", "generateChangelog", "writeChangelogFile"}
            \/ changelog # << >> \/ writes # 0) => EveryFetchClosed)

\* the file was written after the fetches of five buckets, one of them of
\* five commits, had all closed
C15_Witness ==
    /\ pc = "done"
    /\ finish = "success"
    /\ writes = 1
    /\ Len(tasks) = 5
    /\ \E b \in 1..Len(tasks) : Len(tasks[b].fetches) = 5
    /\ EveryFetchClosed

-----------------------------------------------------------------------------
(* Runs given a start version that the changelog may already hold          *)

\* an untagged merge newer than the merge tagged v1.0
UntaggedFirst ==
    << Commit(1, TwoParents, << >>),
       Commit(2, TwoParents, <<TagRef(V10)>>) >>

\* a message whose title begins with the euro sign
EuroBody == Body(<< <<Euro, "T">>, MergeRequestLine >>)

InitStart ==
    /\ allCommits \in BOOLEAN
    /\ overwriteChangelog = FALSE
    /\ startVersion \in {<< >>, V20}
    /\ shortCommitMessage = TRUE
    /\ history = UntaggedFirst
    /\ bodies \in {[h \in {Hashes[1], Hashes[2]} |-> MergeRequestBody],
                   [h \in {Hashes[1], Hashes[2]} |-> EuroBody]}
    /\ store \in {[exists |-> FALSE, content |-> << >>],
                  [exists |-> TRUE, content |-> V20 \o <<LF>>]}
    /\ cutsLeft = MaxCuts
    /\ Fresh

SpecStart == InitStart /\ [][Next]_vars

\* the text of the blocks of the buckets at the places ks of the filtered list
BlocksAt(ks) ==
    Concat([k \in 1..Len(ks) |->
              generateVersionChangelog(versionsWithMessages[ks[k]].version,
                                       versionsWithMessages[ks[k]].messages)
                  \o <<LF>>])

\* the places of the filtered list whose version differs from the resume
\* version
OtherVersions ==
    {k \in 1..Len(versionsWithMessages) :
        versionsWithMessages[k].version # untilVersion}

\* the places of the filtered list before the first bucket of the resume
\* version
BeforeResumeVersion ==
    {k \in 1..Len(versionsWithMessages) :
        \A j \in 1..k : versionsWithMessages[j].version # untilVersion}

\* C16 as stated: the rendered text is one block for every bucket of the
\* filtered list whose version differs from the resume version, in list
\* order, and only a bucket of the resume version is left out.
C16_OnlyResumeBucketLeftOut ==
    pc = "writeChangelogFile" => changelog = BlocksAt(Ascending(OtherVersions))

\* C16 amended: the rendered text is one block for every bucket of the
\* filtered list that stands before the first bucket of the resume version, in
\* list order; that bucket and every bucket after it are left out.
C16_RenderedUpToResumeBucket ==
    pc = "writeChangelogFile" =>
        changelog = BlocksAt(Ascending(BeforeResumeVersion))

\* the start version is the resume version: its bucket stands first in the
\* filtered list, the bucket of another version follows, nothing is rendered
C16_Witness ==
    /\ pc = "writeChangelogFile"
    /\ Len(versionsWithMessages) = 2
    /\ untilVersion = V20
    /\ versionsWithMessages[1].version = untilVersion
    /\ versionsWithMessages[2].version = V10
    /\ changelog = << >>

-----------------------------------------------------------------------------
(* Commits newer than the newest tag                                       *)

\* the hashes of the commits at the positions ps, in stream order
HashesAt(ps) ==
    [k \in 1..Cardinality(ps) |-> LineHashes(seenLines[Ascending(ps)[k]])[1]]

\* the commits of all buckets handed on, in list order
AllBucketed ==
    Concat([b \in 1..Len(versionsWithCommits) |-> versionsWithCommits[b].commits])

\* the retained positions before the first detected tag
BeforeFirstTag(tp, rp) == {i \in rp : i < NextOpening(tp, 0)}

\* C17: with no start version, the retained commits before the first detected
\* tag are in no bucket (the buckets hold exactly the retained commits from
\* that tag on), and a walk that detected no tag yields no bucket; with a
\* start version, those commits are the first bucket, under the start version.
C17_CommitsBeforeFirstTag ==
    Segmented =>
        \E tp \in {TagPositions} : \E rp \in {RetainedPositions} :
            /\ startVersion = << >> =>
                  /\ tp = {} => versionsWithCommits = << >>
                  /\ AllBucketed =
                         HashesAt({i \in rp : NextOpening(tp, 0) <= i /\ i < HaltPosition})
            /\ startVersion # << >> =>
                  /\ versionsWithCommits # << >>
                  /\ versionsWithCommits[1] =
                         [version |-> startVersion,
                          commits |-> HashesAt(BeforeFirstTag(tp, rp))]

\* no start version: a retained commit came before the first detected tag,
\* and the one bucket handed on holds only the commit of the tag
C17_Witness ==
    /\ Segmented
    /\ startVersion = << >>
    /\ BeforeFirstTag(TagPositions, RetainedPositions) # {}
    /\ Len(versionsWithCommits) = 1
    /\ Len(versionsWithCommits[1].commits) = 1

-----------------------------------------------------------------------------
(* The split of the changelog read                                         *)

\* text with the rendered blocks taken out at some place is the content read
InsertsOnly(text, blocks, read) ==
    \E k \in 0..Len(read) :
        text = Sub(read, 1, k) \o blocks \o Sub(read, k + 1, Len(read))

\* C18: the header followed by the body is the content that was read, with a
\* line that is a version and with none, and the document written is the
\* content read with the rendered blocks inserted at one place.
C18_SplitLossless ==
    /\ (StageRank(pc) > 2 /\ ~overwriteChangelog) =>
          oldChangelogHeader \o oldChangelog = changelogRead
    /\ (pc = "done" /\ finish = "success" /\ writes = 1 /\ ~overwriteChangelog) =>
          InsertsOnly(store.content, changelog, changelogRead)

-----------------------------------------------------------------------------
(* The division of the output of git log into data events                  *)

\* the buckets handed on when the whole output comes in one data event
WholeBuckets ==
    SealOnClose(SegmentData([processKilled |-> FALSE,
                             versionsWithCommits |-> << >>,
                             currentCommits |-> << >>,
                             currentVersion |-> startVersion,
                             seenLines |-> << >>],
                            GitLogOutput(history), allCommits, untilVersion))

\* C19: the buckets handed on are those of the history lines delivered whole,
\* however the output was divided into data events.
C19_BucketsIgnoreChunks ==
    Segmented => \E whole \in {WholeBuckets} : versionsWithCommits = whole

-----------------------------------------------------------------------------
(* Runs in which every callback that can run does run                      *)

InitLive ==
    /\ allCommits \in BOOLEAN
    /\ overwriteChangelog = FALSE
    /\ startVersion = << >>
    /\ shortCommitMessage = TRUE
    /\ history = TwoTagged
    /\ bodies \in {[h \in {Hashes[1], Hashes[2]} |-> MergeRequestBody]}
    /\ store \in {[exists |-> FALSE, content |-> << >>],
                  [exists |-> TRUE, content |-> <<"L", LF>>]}
    /\ cutsLeft = MaxCuts
    /\ Fresh

\* the close event of some git show that is running
gitShowCloses ==
    \E b \in 1..Len(tasks) : \E i \in 1..Len(tasks[b].fetches) : gitShowClose(b, i)

\* every subprocess spawned closes in the end, and the event loop runs every
\* callback that is due; nothing is asked of the data events
SpecLive ==
    /\ InitLive /\ [][Next]_vars
    /\ WF_vars(readChangelogFile)
    /\ WF_vars(getLastVersionFromChangelog)
    /\ WF_vars(getVersionsWithCommits)
    /\ WF_vars(gitLogClose)
    /\ WF_vars(getMessagesForVersions)
    /\ WF_vars(gitShowCloses)
    /\ WF_vars(filterEmptyVersionsStage)
    /\ WF_vars(generateChangelogStage)
    /\ WF_vars(writeChangelogFile)

\* C20: when every subprocess spawned closes, the finish handler is invoked in
\* the end, and once only: its outcome, success or the error that came first,
\* is set at the step that ends the run and never changes afterwards.
C20_FinishInvokedOnce ==
    /\ <>(finish \in {"success", "error"})
    /\ [][finish # "none" => finish' = finish]_vars
    /\ [][finish' # finish => pc' = "done"]_vars
    /\ [](pc = "done" <=> finish # "none")

\* the handler was invoked with the error of one fetch while the fetch of
\* another bucket was still running
C20_Witness ==
    /\ pc = "done"
    /\ finish = "error"
    /\ \E b \in 1..Len(tasks) : \E i \in 1..Len(tasks[b].fetches) :
          tasks[b].fetches[i].state = "running"
    /\ writes = 0

=============================================================================
